---------------------------- MODULE Spec2Model ----------------------------
(***************************************************************************)
(* Model of the toolkit-data release scripts:                              *)
(*   sync_to_cdn.py               CDN sync      (SpecSync)                 *)
(*   validate_packages.py         hand-written manifest validator          *)
(*   scripts/validate_packages.py schema-based manifest validator          *)
(*   scripts/build_packages.py    archiver                                 *)
(* Each script is a sequential process; the three are independent and are  *)
(* checked under separate specifications over the same variables.          *)
(* A path is a sequence of path components.                                *)
(***************************************************************************)
EXTENDS Integers, Sequences, FiniteSets, Bags, TLC

VARIABLES
    pc,          \* position of the running script
    exitStatus,  \* "running", or the process exit status 0 / 1
    reported,    \* set of failures reported (printed or raised), as records
    \* ---- CDN sync
    localIsDir,  \* Path(local_dir).is_dir()
    localFiles,  \* regular files under local_dir (paths from the cwd)
    cred,        \* os.environ.get(SECRET_KEY): "unset", "empty" or "set"
    bucket,      \* the bucket: destination key -> what was stored there
    pending,     \* files rglob has still to yield in this run
    cur,         \* the file upload_file is working on (<<>> when none)
    netlog,      \* network calls of this run, in order
    run,         \* "first" or "second" run against the same directory/bucket
    firstExit,   \* exit status of the first run once a second has started
    uploads,     \* number of uploads performed in this run
    \* ---- manifest validators
    script,      \* "hand" (validate_packages.py) or "schema" (scripts/...)
    manifest,    \* modules/packages.toml: its state and parsed content
    fsPaths,     \* the paths that exist on disk (from the cwd)
    tomlOf,      \* content of each existing module.toml, by module directory
    pkgIdx,      \* package being validated (declaration order)
    modIdx,      \* module of that package being validated
    checks,      \* module-path checks performed so far, in order
    validated,   \* module paths reported "validated successfully"
    \* ---- archiver
    arcExists,   \* Path("modules").exists()
    arcFiles,    \* regular files under modules/ (paths from the cwd)
    toWalk,      \* directories os.walk has still to visit
    archive      \* the zip written so far: a bag of entry names

commonVars == <<pc, exitStatus, reported>>
syncVars == <<localIsDir, localFiles, cred, bucket, pending, cur, netlog,
              run, firstExit, uploads>>
valVars == <<script, manifest, fsPaths, tomlOf, pkgIdx, modIdx, checks, validated>>
arcVars == <<arcExists, arcFiles, toWalk, archive>>
vars == <<commonVars, syncVars, valVars, arcVars>>

\* ------------------------------------------------------------------ bounds
MaxDepth == 3   \* deepest file: MaxDepth components below the source directory
MaxFiles == 2   \* most regular files in a local tree
MaxDefects == 2 \* most deviations of a manifest and its tree from a well-formed one

\* ------------------------------------------------------------- path helpers
RECURSIVE SubsetsUpTo(_, _)
SubsetsUpTo(S, k) ==
    IF k = 0 THEN {{}}
    ELSE LET prev == SubsetsUpTo(S, k - 1)
         IN  prev \cup {T \cup {x} : T \in prev, x \in S}

RECURSIVE SeqsOfLen(_, _)
SeqsOfLen(S, n) ==
    IF n = 0 THEN {<<>>}
    ELSE {Append(s, x) : s \in SeqsOfLen(S, n - 1), x \in S}

\* pathlib: PurePath.parents[i], the path with its last i+1 components dropped
\* ("." is the empty sequence)
Parents(p, i) == SubSeq(p, 1, Len(p) - (i + 1))

\* pathlib: p.relative_to(base), defined when base is a prefix of p
IsPrefix(base, p) == Len(base) <= Len(p) /\ SubSeq(p, 1, Len(base)) = base
RelativeTo(p, base) == SubSeq(p, Len(base) + 1, Len(p))

Failure(kind, subject) == [kind |-> kind, subject |-> subject]

\* the variables of a script that is not the one running
ValIdle ==
    /\ script = "none"
    /\ manifest = [state |-> "missing"]
    /\ fsPaths = {}
    /\ tomlOf = <<>>
    /\ pkgIdx = 0
    /\ modIdx = 0
    /\ checks = <<>>
    /\ validated = {}

SyncIdle ==
    /\ localIsDir = FALSE
    /\ localFiles = {}
    /\ cred = "unset"
    /\ bucket = <<>>
    /\ pending = {}
    /\ cur = <<>>
    /\ netlog = <<>>
    /\ run = "first"
    /\ firstExit = "none"
    /\ uploads = 0

ArcIdle ==
    /\ arcExists = FALSE
    /\ arcFiles = {}
    /\ toWalk = {}
    /\ archive = EmptyBag

\* =========================================================================
\*                         CDN sync (sync_to_cdn.py)
\* =========================================================================
SECRET_KEY == "APPS_CDN_SERVICE_ACCOUNT_CREDENTIALS"
LOCAL_DIR == <<"data">>
DEST_PREFIX == "toolkit"

SyncDirNames == {"a", "b"}
SyncFileNames == {"f"}

\* every file path the bounded local trees may hold, relative to LOCAL_DIR
SyncRelFiles ==
    UNION {{Append(d, f) : d \in SeqsOfLen(SyncDirNames, n), f \in SyncFileNames}
           : n \in 0..(MaxDepth - 1)}

\* the trees: sets of regular files, as rglob names them (LOCAL_DIR/...)
SyncTrees == SubsetsUpTo({LOCAL_DIR \o r : r \in SyncRelFiles}, MaxFiles)

\* upload_file, lines 39-42: blob_name = f"{dest_prefix}/{relative_path}" with
\* relative_path = file_path.relative_to(file_path.parents[1])
BlobNameParent1(file_path, dest_prefix) ==
    <<dest_prefix>> \o RelativeTo(file_path, Parents(file_path, 1))

blob_name(file_path, dest_prefix) == BlobNameParent1(file_path, dest_prefix)

\* sync_local_to_gcs, line 65: "if not credentials_json" (None or "")
CredentialsOnlyNoneMissing(c) == c = "unset"

CredentialsMissing(c) == c \in {"unset", "empty"}

\* upload_file, lines 48-50: upload unless blob.exists()
ShouldUploadAlways(found) == TRUE

ShouldUpload(found) == ~found

\* upload_file, line 54: the bucket after blob.upload_from_filename, the blob
\* being the one named on line 42
StoreBlobUnderFileName(b, file_path, dest_prefix) ==
    LET key == <<dest_prefix, file_path[Len(file_path)]>>
    IN  [k \in DOMAIN b \cup {key} |-> IF k = key THEN file_path ELSE b[k]]

StoreBlob(b, file_path, dest_prefix) ==
    LET key == blob_name(file_path, dest_prefix)
    IN  [k \in DOMAIN b \cup {key} |-> IF k = key THEN file_path ELSE b[k]]

\* sync_local_to_gcs, lines 72-73: local_path.rglob("*") filtered by is_file()
RGlobFiles(files) == {p \in files : IsPrefix(LOCAL_DIR, p)}

SyncInit ==
    /\ pc = "sync_start"
    /\ exitStatus = "running"
    /\ reported = {}
    /\ localIsDir \in BOOLEAN
    /\ localFiles \in (IF localIsDir THEN SyncTrees ELSE {{}})
    /\ cred \in {"unset", "empty", "set"}
    /\ \E present \in SUBSET {blob_name(p, DEST_PREFIX) : p \in localFiles} :
          bucket = [k \in present |-> <<"preexisting">>]
    /\ pending = {}
    /\ cur = <<>>
    /\ netlog = <<>>
    /\ run = "first"
    /\ firstExit = "none"
    /\ uploads = 0
    /\ ValIdle
    /\ ArcIdle

\* sync_local_to_gcs, lines 58-62: not a directory: print and return
SyncNotADirectory ==
    /\ UNCHANGED <<valVars, arcVars>>
    /\ pc = "sync_start"
    /\ ~localIsDir
    /\ reported' = reported \cup {Failure("NotADirectory", LOCAL_DIR)}
    /\ pc' = "exit"
    /\ exitStatus' = 0
    /\ UNCHANGED syncVars

\* sync_local_to_gcs, lines 64-66: credentials missing: raise ValueError
SyncNoCredentials ==
    /\ UNCHANGED <<valVars, arcVars>>
    /\ pc = "sync_start"
    /\ localIsDir
    /\ CredentialsMissing(cred)
    /\ reported' = reported \cup {Failure("NotSetInEnvironment", SECRET_KEY)}
    /\ pc' = "exit"
    /\ exitStatus' = 1
    /\ UNCHANGED syncVars

\* sync_local_to_gcs, lines 64-72, with authenticate_with_service_account:
\* the credentials parse and the client is built, or the blob is rejected
SyncAuthenticate ==
    /\ UNCHANGED <<valVars, arcVars>>
    /\ pc = "sync_start"
    /\ localIsDir
    /\ ~CredentialsMissing(cred)
    /\ netlog' = Append(netlog, [op |-> "auth"])
    /\ \/ /\ pc' = "sync_loop"
          /\ pending' = RGlobFiles(localFiles)
          /\ UNCHANGED <<exitStatus, reported>>
       \/ /\ pc' = "exit"
          /\ exitStatus' = 1
          /\ reported' = reported \cup {Failure("BadCredentials", SECRET_KEY)}
          /\ UNCHANGED pending
    /\ UNCHANGED <<localIsDir, localFiles, cred, bucket, cur, run, firstExit, uploads>>

\* upload_file, lines 39-50: name the blob and ask whether it exists; skip if so
SyncCheckExists ==
    /\ UNCHANGED <<valVars, arcVars>>
    /\ pc = "sync_loop"
    /\ \E file_path \in pending :
        LET key == blob_name(file_path, DEST_PREFIX)
            found == key \in DOMAIN bucket
        IN  /\ pending' = pending \ {file_path}
            /\ \/ /\ netlog' = Append(netlog, [op |-> "exists", key |-> key,
                                               file |-> file_path,
                                               result |-> IF found THEN "present"
                                                                   ELSE "absent"])
                  /\ IF ShouldUpload(found)
                     THEN pc' = "sync_upload" /\ cur' = file_path
                     ELSE pc' = "sync_loop" /\ cur' = <<>>
                  /\ UNCHANGED <<exitStatus, reported>>
               \/ /\ netlog' = Append(netlog, [op |-> "exists", key |-> key,
                                               file |-> file_path, result |-> "error"])
                  /\ pc' = "exit"
                  /\ exitStatus' = 1
                  /\ reported' = reported \cup {Failure("TransportError", key)}
                  /\ cur' = <<>>
    /\ UNCHANGED <<localIsDir, localFiles, cred, bucket, run, firstExit, uploads>>

\* upload_file, lines 53-54: blob.upload_from_filename; a transport error
\* aborts the run, with the object written or not
SyncUpload ==
    /\ UNCHANGED <<valVars, arcVars>>
    /\ pc = "sync_upload"
    /\ LET key == blob_name(cur, DEST_PREFIX)
       IN  /\ netlog' = Append(netlog, [op |-> "upload", key |-> key, file |-> cur])
           /\ \/ /\ bucket' = StoreBlob(bucket, cur, DEST_PREFIX)
                 /\ uploads' = uploads + 1
                 /\ pc' = "sync_loop"
                 /\ UNCHANGED <<exitStatus, reported>>
              \/ /\ \/ UNCHANGED <<bucket, uploads>>
                    \/ /\ bucket' = StoreBlob(bucket, cur, DEST_PREFIX)
                       /\ uploads' = uploads + 1
                 /\ pc' = "exit"
                 /\ exitStatus' = 1
                 /\ reported' = reported \cup {Failure("TransportError", key)}
    /\ cur' = <<>>
    /\ UNCHANGED <<localIsDir, localFiles, cred, pending, run, firstExit>>

\* sync_local_to_gcs, line 72: the loop is exhausted and the script returns
SyncFinish ==
    /\ UNCHANGED <<valVars, arcVars>>
    /\ pc = "sync_loop"
    /\ pending = {}
    /\ pc' = "exit"
    /\ exitStatus' = 0
    /\ UNCHANGED <<reported, syncVars>>

\* the script is started again on the same directory and the bucket as left
SyncRunAgain ==
    /\ UNCHANGED <<valVars, arcVars>>
    /\ pc = "exit"
    /\ run = "first"
    /\ run' = "second"
    /\ firstExit' = exitStatus
    /\ pc' = "sync_start"
    /\ exitStatus' = "running"
    /\ reported' = {}
    /\ netlog' = <<>>
    /\ uploads' = 0
    /\ pending' = {}
    /\ cur' = <<>>
    /\ UNCHANGED <<localIsDir, localFiles, cred, bucket>>

\* ------------------------------------------------------------ sync claims
NetCalls == {i \in 1..Len(netlog) : netlog[i].op \in {"exists", "upload"}}

\* C1 (as claimed): every exists-check and upload of a file uses the key
\* <prefix>/<path of the file relative to the source directory>, and two
\* distinct local files never map to the same destination key.
C1_KeyIsPrefixAndRelativePath ==
    /\ \A i \in NetCalls :
          netlog[i].key = <<DEST_PREFIX>> \o RelativeTo(netlog[i].file, LOCAL_DIR)
    /\ \A i, j \in NetCalls :
          netlog[i].file # netlog[j].file => netlog[i].key # netlog[j].key

\* every upload directly follows an exists-check of the same key and file
\* that answered "absent"
C2_UploadOnlyAfterMiss ==
    \A i \in 1..Len(netlog) :
        netlog[i].op = "upload" =>
            /\ i > 1
            /\ netlog[i - 1].op = "exists"
            /\ netlog[i - 1].key = netlog[i].key
            /\ netlog[i - 1].file = netlog[i].file
            /\ netlog[i - 1].result = "absent"

\* a step leaves every object of the bucket in place and as it was
C2_NoOverwriteStep ==
    \A k \in DOMAIN bucket : k \in DOMAIN bucket' /\ bucket'[k] = bucket[k]

\* C2: an upload to a key happens only immediately after an exists-check on
\* that key returned false, and no step changes or removes an object that is
\* already in the bucket (present before the run or uploaded earlier in it).
C2_UploadOnlyIfAbsent == [](C2_UploadOnlyAfterMiss) /\ [][C2_NoOverwriteStep]_vars

\* C2 witness: a file was uploaded and a later, different file of the same
\* run found that key present and was skipped.
C2_Witness ==
    \E i, j \in 1..Len(netlog) :
        /\ i < j
        /\ netlog[i].op = "upload"
        /\ netlog[j].op = "exists"
        /\ netlog[j].key = netlog[i].key
        /\ netlog[j].file # netlog[i].file
        /\ netlog[j].result = "present"
        /\ bucket[netlog[i].key] = netlog[i].file

\* C3: in a second run after a first run that completed without error, no
\* upload is performed and no exists-check reports a missing key.
C3_SecondRunUploadsNothing ==
    (run = "second" /\ firstExit = 0) =>
        /\ uploads = 0
        /\ \A i \in 1..Len(netlog) :
              /\ netlog[i].op # "upload"
              /\ netlog[i].op = "exists" => netlog[i].result # "absent"

\* C3 witness: the second run finished after a first run that uploaded.
C3_Witness ==
    /\ run = "second"
    /\ firstExit = 0
    /\ pc = "exit"
    /\ exitStatus = 0
    /\ Len(netlog) > Cardinality(localFiles)
    /\ \E k \in DOMAIN bucket : bucket[k] # <<"preexisting">>

\* C4 (as claimed): every run started without credentials ends in the
\* configuration error naming the variable, with no network call.
C4_NoCredentialsAlwaysConfigError ==
    (cred \in {"unset", "empty"} /\ pc = "exit") =>
        /\ exitStatus = 1
        /\ reported = {Failure("NotSetInEnvironment", SECRET_KEY)}
        /\ netlog = <<>>

\* C4 (amended): a run started without credentials makes no network call; when
\* the local directory exists it ends in the configuration error naming the
\* variable, and when it does not, in the report that it is no directory.
C4_NoCredentialsNoNetwork ==
    cred \in {"unset", "empty"} =>
        /\ netlog = <<>>
        /\ uploads = 0
        /\ pc \in {"sync_start", "exit"}
        /\ (pc = "exit" /\ localIsDir) =>
              /\ exitStatus = 1
              /\ reported = {Failure("NotSetInEnvironment", SECRET_KEY)}
        /\ (pc = "exit" /\ ~localIsDir) =>
              reported = {Failure("NotADirectory", LOCAL_DIR)}

\* C4 witness: a run with an empty credential variable over a directory with
\* files has ended.
C4_Witness ==
    /\ cred = "empty"
    /\ localIsDir
    /\ localFiles # {}
    /\ pc = "exit"
    /\ exitStatus = 1

\* C6 (as claimed): a script that reported a failure exits non-zero.
C6_FailureExitsNonZero ==
    (pc = "exit" /\ reported # {}) => exitStatus # 0

SyncNext ==
    \/ SyncNotADirectory
    \/ SyncNoCredentials
    \/ SyncAuthenticate
    \/ SyncCheckExists
    \/ SyncUpload
    \/ SyncFinish
    \/ SyncRunAgain

SpecSync == SyncInit /\ [][SyncNext]_vars

\* =========================================================================
\*     Manifest validators (validate_packages.py, scripts/validate_packages.py)
\* =========================================================================
MODULES_DIR == <<"modules">>
PACKAGES_FILE == MODULES_DIR \o <<"packages.toml">>
MODULE_TOML == <<"module.toml">>

\* the packages, modules per package and extra resources per module of the
\* well-formed repository the inputs are drawn around
PkgNames == <<"p1", "p2">>
ModNames == <<"m1", "m2">>
ResNames == <<"r1.yaml", "r2.yaml">>
ResMissing == <<"r1_missing", "r2_missing">>

Pkgs == 1..Len(PkgNames)
Mods == 1..Len(ModNames)
Ress == 1..Len(ResNames)

\* a deviation from the well-formed repository
Dev(site, i, j, field, what) ==
    [site |-> site, pkg |-> i, mod |-> j, field |-> field, what |-> what]

DevSites ==
    {Dev("manifest", 0, 0, "file", w) : w \in {"missing", "malformed", "base_missing"}}
    \cup {Dev("library", 0, 0, "library", "absent")}
    \cup {Dev("library", 0, 0, f, w) :
            f \in {"title", "description"}, w \in {"absent", "empty"}}
    \cup {Dev("packages", 0, 0, "packages", w) : w \in {"absent", "empty"}}
    \cup {Dev("package", i, 0, f, w) :
            i \in Pkgs, f \in {"title", "id", "description"}, w \in {"absent", "empty"}}
    \cup {Dev("package", i, 0, "modules", w) :
            i \in Pkgs, w \in {"absent", "notalist", "empty"}}
    \cup {Dev("module", i, j, "dir", w) :
            i \in Pkgs, j \in Mods, w \in {"missing", "no_module_toml", "bad_toml"}}
    \cup {Dev("module", i, j, f, "absent") :
            i \in Pkgs, j \in Mods, f \in {"module", "id", "extra_resources"}}
    \cup {Dev("module", i, j, "title", "empty") : i \in Pkgs, j \in Mods}
    \cup {Dev("module", i, j, "extra", ResMissing[k]) :
            i \in Pkgs, j \in Mods, k \in Ress}
    \cup {Dev("module", i, j, "extra", "in_module_dir") : i \in Pkgs, j \in Mods}

\* a string field of the TOML data: "absent", "empty" or "ok"
FieldValue(D, site, i, j, f) ==
    IF Dev(site, i, j, f, "absent") \in D THEN "absent"
    ELSE IF Dev(site, i, j, f, "empty") \in D THEN "empty"
    ELSE "ok"

ModuleRef(i, j) == <<PkgNames[i], ModNames[j]>>
ModuleDir(i, j) == MODULES_DIR \o ModuleRef(i, j)
Location(i, j, k) == <<PkgNames[i], ModNames[j], ResNames[k]>>

\* scripts/validate_packages.py Package (lines 33-42): one [packages.<name>] table
PackageOf(D, i) ==
    [name |-> PkgNames[i],
     title |-> FieldValue(D, "package", i, 0, "title"),
     id |-> FieldValue(D, "package", i, 0, "id"),
     description |-> FieldValue(D, "package", i, 0, "description"),
     modules |->
        IF Dev("package", i, 0, "modules", "absent") \in D
        THEN [kind |-> "absent", items |-> <<>>]
        ELSE IF Dev("package", i, 0, "modules", "notalist") \in D
        THEN [kind |-> "notalist", items |-> <<>>]
        ELSE IF Dev("package", i, 0, "modules", "empty") \in D
        THEN [kind |-> "list", items |-> <<>>]
        ELSE [kind |-> "list", items |-> [j \in Mods |-> ModuleRef(i, j)]]]

NoLibrary == [present |-> FALSE, title |-> "absent", description |-> "absent"]
NoPackages == [present |-> FALSE, items |-> <<>>]

\* scripts/validate_packages.py PackagesToml (lines 81-87): modules/packages.toml
ManifestOf(D) ==
    IF Dev("manifest", 0, 0, "file", "base_missing") \in D
       \/ Dev("manifest", 0, 0, "file", "missing") \in D
    THEN [state |-> "missing", library |-> NoLibrary, packages |-> NoPackages]
    ELSE IF Dev("manifest", 0, 0, "file", "malformed") \in D
    THEN [state |-> "malformed", library |-> NoLibrary, packages |-> NoPackages]
    ELSE [state |-> "ok",
          library |->
            IF Dev("library", 0, 0, "library", "absent") \in D THEN NoLibrary
            ELSE [present |-> TRUE,
                  title |-> FieldValue(D, "library", 0, 0, "title"),
                  description |-> FieldValue(D, "library", 0, 0, "description")],
          packages |->
            IF Dev("packages", 0, 0, "packages", "absent") \in D THEN NoPackages
            ELSE IF Dev("packages", 0, 0, "packages", "empty") \in D
            THEN [present |-> TRUE, items |-> <<>>]
            ELSE [present |-> TRUE, items |-> [i \in Pkgs |-> PackageOf(D, i)]]]

\* scripts/validate_packages.py ModuleToml (lines 53-78): one module.toml
DescriptorOf(D, i, j) ==
    IF Dev("module", i, j, "dir", "bad_toml") \in D
    THEN [syntax |-> "malformed",
          module |-> [present |-> FALSE, id |-> "absent", package_id |-> "absent",
                      title |-> "absent"],
          extra_resources |-> <<>>]
    ELSE [syntax |-> "ok",
          module |->
            IF Dev("module", i, j, "module", "absent") \in D
            THEN [present |-> FALSE, id |-> "absent", package_id |-> "absent",
                  title |-> "absent"]
            ELSE [present |-> TRUE,
                  id |-> FieldValue(D, "module", i, j, "id"),
                  package_id |-> "ok",
                  title |-> FieldValue(D, "module", i, j, "title")],
          extra_resources |->
            IF Dev("module", i, j, "extra_resources", "absent") \in D THEN <<>>
            ELSE [k \in Ress |-> Location(i, j, k)]]

HasDir(D, i, j) == Dev("module", i, j, "dir", "missing") \notin D
HasToml(D, i, j) ==
    HasDir(D, i, j) /\ Dev("module", i, j, "dir", "no_module_toml") \notin D

\* the paths on disk: extra resource k of a module is missing under the base
\* directory when deviation ResMissing[k] is present; "in_module_dir" puts a
\* file at the first resource's location under the module's own directory
ModulePathsOf(D, i, j) ==
    IF ~HasDir(D, i, j) THEN {}
    ELSE {ModuleDir(i, j)}
         \cup (IF HasToml(D, i, j) THEN {ModuleDir(i, j) \o MODULE_TOML} ELSE {})
         \cup {MODULES_DIR \o Location(i, j, k) :
                 k \in {r \in Ress : Dev("module", i, j, "extra", ResMissing[r]) \notin D}}
         \cup (IF Dev("module", i, j, "extra", "in_module_dir") \in D
               THEN {ModuleDir(i, j) \o Location(i, j, 1)} ELSE {})

FsOf(D) ==
    IF Dev("manifest", 0, 0, "file", "base_missing") \in D THEN {}
    ELSE {MODULES_DIR}
         \cup (IF Dev("manifest", 0, 0, "file", "missing") \in D
               THEN {} ELSE {PACKAGES_FILE})
         \cup UNION {ModulePathsOf(D, i, j) : i \in Pkgs, j \in Mods}

TomlOf(D) ==
    IF Dev("manifest", 0, 0, "file", "base_missing") \in D THEN <<>>
    ELSE LET having == {ij \in Pkgs \X Mods : HasToml(D, ij[1], ij[2])}
         IN  [d \in {ModuleDir(ij[1], ij[2]) : ij \in having} |->
                LET ij == CHOOSE x \in having : ModuleDir(x[1], x[2]) = d
                IN  DescriptorOf(D, ij[1], ij[2])]

ValInit ==
    /\ pc = "val_start"
    /\ exitStatus = "running"
    /\ reported = {}
    /\ SyncIdle
    /\ ArcIdle
    /\ script \in {"hand", "schema"}
    /\ \E D \in SubsetsUpTo(DevSites, MaxDefects) :
          /\ manifest = ManifestOf(D)
          /\ fsPaths = FsOf(D)
          /\ tomlOf = TomlOf(D)
    /\ pkgIdx = 0
    /\ modIdx = 0
    /\ checks = <<>>
    /\ validated = {}

PathExists(path) == path \in fsPaths

Fail(failures) ==
    /\ pc' = "exit"
    /\ exitStatus' = 1
    /\ reported' = reported \cup failures

RequiredFailure(value, subject) ==
    IF value = "absent" THEN {Failure("MissingField", subject)}
    ELSE IF value = "empty" THEN {Failure("EmptyField", subject)}
    ELSE {}

\* ------------------------------------------------ validate_packages.py
\* validate_library_header, lines 16-32: first failure of the header, if any
validate_library_header(data) ==
    IF ~data.library.present THEN {Failure("MissingField", <<"library">>)}
    ELSE RequiredFailure(data.library.description, <<"library", "description">>)

\* validate_packages, lines 35-47
validate_packagesPresenceOnly(data) ==
    IF ~data.packages.present THEN {Failure("MissingField", <<"packages">>)} ELSE {}

validate_packages(data) ==
    IF ~data.packages.present THEN {Failure("MissingField", <<"packages">>)}
    ELSE IF data.packages.items = <<>>
    THEN {Failure("NoPackagesDefined", <<"packages">>)}
    ELSE {}

\* validate_package_structure, lines 50-81: first failure of a package, if any
validate_package_structure(package_data) ==
    LET at(f) == <<"packages", package_data.name, f>>
    IN  IF package_data.title = "absent" THEN {Failure("MissingField", at("title"))}
        ELSE IF package_data.description = "absent"
        THEN {Failure("MissingField", at("description"))}
        ELSE IF package_data.modules.kind = "absent"
        THEN {Failure("MissingField", at("modules"))}
        ELSE IF package_data.id = "absent" THEN {Failure("MissingField", at("id"))}
        ELSE IF package_data.title = "empty" THEN {Failure("EmptyField", at("title"))}
        ELSE IF package_data.description = "empty"
        THEN {Failure("EmptyField", at("description"))}
        ELSE IF package_data.modules.kind # "list"
        THEN {Failure("ModulesNotAList", at("modules"))}
        ELSE IF Len(package_data.modules.items) = 0
        THEN {Failure("ModulesEmpty", at("modules"))}
        ELSE {}

\* ---------------------------------------- scripts/validate_packages.py
\* Library, lines 18-30
LibraryFailures(library) ==
    IF ~library.present THEN {Failure("MissingField", <<"library">>)}
    ELSE RequiredFailure(library.title, <<"library", "title">>)
         \cup RequiredFailure(library.description, <<"library", "description">>)

\* Package, lines 33-50
PackageFailures(package) ==
    LET at(f) == <<"packages", package.name, f>>
    IN  RequiredFailure(package.title, at("title"))
        \cup RequiredFailure(package.id, at("id"))
        \cup RequiredFailure(package.description, at("description"))
        \cup (IF package.modules.kind = "absent"
              THEN {Failure("MissingField", at("modules"))}
              ELSE IF package.modules.kind # "list"
              THEN {Failure("ModulesNotAList", at("modules"))}
              ELSE IF Len(package.modules.items) = 0
              THEN {Failure("ModulesEmpty", at("modules"))}
              ELSE {})

\* PackagesToml, lines 81-87 (validate, lines 205-208): every failure of the schema
PackagesTomlFailures(data) ==
    LibraryFailures(data.library)
    \cup (IF ~data.packages.present THEN {Failure("MissingField", <<"packages">>)}
          ELSE IF data.packages.items = <<>>
          THEN {Failure("NoPackagesDefined", <<"packages">>)}
          ELSE UNION {PackageFailures(data.packages.items[i]) :
                        i \in 1..Len(data.packages.items)})

\* ------------------------------------------------- module-path checks
\* validate_module_paths lines 101-113 / validate_module_path lines 128-140
ModulePathFailureTomlOnly(full_path) ==
    IF ~PathExists(full_path \o MODULE_TOML) THEN "NotAValidModule" ELSE "none"

ModulePathFailure(full_path) ==
    IF ~PathExists(full_path) THEN "ModulePathDoesNotExist"
    ELSE IF ~PathExists(full_path \o MODULE_TOML) THEN "NotAValidModule"
    ELSE "none"

\* validate_module_paths lines 115-124 (hand) / validate_module_path lines
\* 142-159 (schema): loading module.toml and checking its shape
DescriptorFailure(scr, desc) ==
    IF scr = "hand"
    THEN IF desc.syntax # "ok" THEN "InvalidToml"
         ELSE IF ~desc.module.present THEN "UnexpectedError"
         ELSE IF "absent" \in {desc.module.id, desc.module.package_id, desc.module.title}
         THEN "MissingModuleFields"
         ELSE "none"
    ELSE IF desc.syntax # "ok" THEN "InvalidTomlInModule"
         ELSE IF \/ ~desc.module.present
                 \/ {desc.module.id, desc.module.package_id, desc.module.title} # {"ok"}
         THEN "InvalidModuleStructure"
         ELSE "none"

\* validate_module_paths line 128 / validate_module_path line 163
ResourcePathInModuleDir(module_dir, location) == module_dir \o location

ResourcePath(module_dir, location) == MODULES_DIR \o location

\* the extra resources looked at: all of them, or up to the first missing one
FirstMissing(paths) ==
    IF \A k \in 1..Len(paths) : PathExists(paths[k]) THEN 0
    ELSE CHOOSE k \in 1..Len(paths) :
            /\ ~PathExists(paths[k])
            /\ \A l \in 1..(k - 1) : PathExists(paths[l])

Check(kind, path, module_path) == [check |-> kind, path |-> path, module |-> module_path]

\* one module path of one package: the checks made, in order, and the failure
ModuleOutcome(scr, module_path) ==
    LET full_path == MODULES_DIR \o module_path
        first == ModulePathFailure(full_path)
        pathChecks ==
            IF first = "ModulePathDoesNotExist"
            THEN <<Check("exists", full_path, module_path)>>
            ELSE <<Check("exists", full_path, module_path),
                   Check("module_toml", full_path \o MODULE_TOML, module_path)>>
    IN  IF first # "none"
        THEN [checks |-> pathChecks, failure |-> {Failure(first, full_path)}]
        ELSE LET desc == tomlOf[full_path]
                 loaded == Append(pathChecks,
                                  Check("load", full_path \o MODULE_TOML, module_path))
                 second == DescriptorFailure(scr, desc)
                 resources == [k \in 1..Len(desc.extra_resources) |->
                                 ResourcePath(full_path, desc.extra_resources[k])]
                 miss == FirstMissing(resources)
                 looked == IF miss = 0 THEN Len(resources) ELSE miss
                 extraChecks == [k \in 1..looked |->
                                   Check("extra", resources[k], module_path)]
             IN  IF second # "none"
                 THEN [checks |-> loaded, failure |-> {Failure(second, full_path)}]
                 ELSE [checks |-> loaded \o extraChecks,
                       failure |-> IF miss = 0 THEN {}
                                   ELSE {Failure("NonExistentFile", resources[miss])}]

\* "for package_name, package in packages.items()": on to package i, or out of
\* the loop (main lines 166, 179 / validate lines 214, 219)
GoToPackage(i, packagePc, donePc) ==
    IF i <= Len(manifest.packages.items)
    THEN pc' = packagePc /\ pkgIdx' = i
    ELSE pc' = donePc /\ UNCHANGED pkgIdx

\* "for module_path in modules": into the module loop of the current package,
\* or on to the next package when the list is empty
EnterModules(modulesPc, packagePc, donePc) ==
    IF Len(manifest.packages.items[pkgIdx].modules.items) > 0
    THEN pc' = modulesPc /\ modIdx' = 1 /\ UNCHANGED pkgIdx
    ELSE GoToPackage(pkgIdx + 1, packagePc, donePc) /\ UNCHANGED modIdx

\* one iteration of the module loop, and the move to what comes next
ModulePathStep(scr, packagePc, donePc) ==
    LET package == manifest.packages.items[pkgIdx]
        module_path == package.modules.items[modIdx]
        outcome == ModuleOutcome(scr, module_path)
    IN  /\ checks' = checks \o outcome.checks
        /\ IF outcome.failure # {}
           THEN /\ Fail(outcome.failure)
                /\ UNCHANGED <<pkgIdx, modIdx, validated>>
           ELSE /\ validated' = validated \cup {module_path}
                /\ UNCHANGED <<exitStatus, reported>>
                /\ IF modIdx < Len(package.modules.items)
                   THEN modIdx' = modIdx + 1 /\ UNCHANGED <<pc, pkgIdx>>
                   ELSE GoToPackage(pkgIdx + 1, packagePc, donePc) /\ UNCHANGED modIdx
        /\ UNCHANGED <<script, manifest, fsPaths, tomlOf>>

valFrame == <<script, manifest, fsPaths, tomlOf, pkgIdx, modIdx, checks, validated>>

\* main, lines 142-154: the manifest is found and parsed
HandLoad ==
    /\ UNCHANGED <<syncVars, arcVars>>
    /\ pc = "val_start"
    /\ script = "hand"
    /\ IF ~PathExists(PACKAGES_FILE)
       THEN Fail({Failure("ManifestNotFound", PACKAGES_FILE)})
       ELSE IF manifest.state # "ok"
       THEN Fail({Failure("InvalidToml", PACKAGES_FILE)})
       ELSE pc' = "hand_header" /\ UNCHANGED <<exitStatus, reported>>
    /\ UNCHANGED valFrame

\* main, lines 156-158
HandLibraryHeader ==
    /\ UNCHANGED <<syncVars, arcVars>>
    /\ pc = "hand_header"
    /\ IF validate_library_header(manifest) # {}
       THEN Fail(validate_library_header(manifest))
       ELSE pc' = "hand_packages" /\ UNCHANGED <<exitStatus, reported>>
    /\ UNCHANGED valFrame

\* main, lines 160-166
HandPackages ==
    /\ UNCHANGED <<syncVars, arcVars>>
    /\ pc = "hand_packages"
    /\ IF validate_packages(manifest) # {}
       THEN Fail(validate_packages(manifest)) /\ UNCHANGED pkgIdx
       ELSE /\ GoToPackage(1, "hand_structure", "hand_done")
            /\ UNCHANGED <<exitStatus, reported>>
    /\ UNCHANGED <<script, manifest, fsPaths, tomlOf, modIdx, checks, validated>>

\* main, lines 166-171, and validate_module_paths, lines 88-92
HandPackageStructure ==
    /\ UNCHANGED <<syncVars, arcVars>>
    /\ pc = "hand_structure"
    /\ LET failures == validate_package_structure(manifest.packages.items[pkgIdx])
       IN  IF failures # {}
           THEN Fail(failures) /\ UNCHANGED <<pkgIdx, modIdx>>
           ELSE IF ~PathExists(MODULES_DIR)
           THEN Fail({Failure("BasePathMissing", MODULES_DIR)})
                /\ UNCHANGED <<pkgIdx, modIdx>>
           ELSE /\ EnterModules("hand_modules", "hand_structure", "hand_done")
                /\ UNCHANGED <<exitStatus, reported>>
    /\ UNCHANGED <<script, manifest, fsPaths, tomlOf, checks, validated>>

\* validate_module_paths, lines 94-135: one module path
HandModulePath ==
    /\ UNCHANGED <<syncVars, arcVars>>
    /\ pc = "hand_modules"
    /\ ModulePathStep("hand", "hand_structure", "hand_done")

\* main, lines 179-181
HandFinish ==
    /\ UNCHANGED <<syncVars, arcVars>>
    /\ pc = "hand_done"
    /\ pc' = "exit"
    /\ exitStatus' = 0
    /\ UNCHANGED <<reported, valFrame>>

\* PackageValidator.validate, lines 195-214
SchemaLoad ==
    /\ UNCHANGED <<syncVars, arcVars>>
    /\ pc = "val_start"
    /\ script = "schema"
    /\ IF ~PathExists(MODULES_DIR)
       THEN Fail({Failure("BasePathMissing", MODULES_DIR)}) /\ UNCHANGED <<pkgIdx, modIdx>>
       ELSE IF ~PathExists(PACKAGES_FILE)
       THEN Fail({Failure("ManifestNotFound", PACKAGES_FILE)})
            /\ UNCHANGED <<pkgIdx, modIdx>>
       ELSE IF manifest.state # "ok"
       THEN Fail({Failure("InvalidToml", PACKAGES_FILE)}) /\ UNCHANGED <<pkgIdx, modIdx>>
       ELSE IF PackagesTomlFailures(manifest) # {}
       THEN Fail(PackagesTomlFailures(manifest)) /\ UNCHANGED <<pkgIdx, modIdx>>
       ELSE /\ GoToPackage(1, "schema_package", "schema_done")
            /\ UNCHANGED <<modIdx, exitStatus, reported>>
    /\ UNCHANGED <<script, manifest, fsPaths, tomlOf, checks, validated>>

\* PackageValidator.validate, lines 214-217, and validate_package_modules,
\* line 184: the package is announced and its module loop entered
SchemaPackage ==
    /\ UNCHANGED <<syncVars, arcVars>>
    /\ pc = "schema_package"
    /\ EnterModules("schema_modules", "schema_package", "schema_done")
    /\ UNCHANGED <<exitStatus, reported>>
    /\ UNCHANGED <<script, manifest, fsPaths, tomlOf, checks, validated>>

\* PackageValidator.validate_module_path, lines 128-170: one module path
SchemaModulePath ==
    /\ UNCHANGED <<syncVars, arcVars>>
    /\ pc = "schema_modules"
    /\ ModulePathStep("schema", "schema_package", "schema_done")

\* PackageValidator.validate, lines 219-222
SchemaFinish ==
    /\ UNCHANGED <<syncVars, arcVars>>
    /\ pc = "schema_done"
    /\ pc' = "exit"
    /\ exitStatus' = 0
    /\ UNCHANGED <<reported, valFrame>>

\* -------------------------------------------------------- validator claims
Succeeded == pc = "exit" /\ exitStatus = 0

EmptyPackagesTable ==
    manifest.state = "ok" /\ manifest.packages.present /\ manifest.packages.items = <<>>

\* C5 (as claimed): either validator reports success only if the library has a
\* non-empty title and description and every package has a non-empty title,
\* id and description and a non-empty modules list.
C5_SuccessOnlyIfWellFormed ==
    (script \in {"hand", "schema"} /\ Succeeded) =>
        /\ manifest.state = "ok"
        /\ manifest.library.present
        /\ manifest.library.title = "ok"
        /\ manifest.library.description = "ok"
        /\ \A i \in 1..Len(manifest.packages.items) :
              LET package == manifest.packages.items[i]
              IN  /\ package.title = "ok"
                  /\ package.id = "ok"
                  /\ package.description = "ok"
                  /\ package.modules.kind = "list"
                  /\ Len(package.modules.items) > 0

\* C7 (as claimed): a manifest with an empty packages table always fails with
\* the "no packages defined" error, and no module-path check is performed.
C7_EmptyPackagesAlwaysNoPackagesError ==
    (EmptyPackagesTable /\ pc = "exit") =>
        /\ exitStatus = 1
        /\ Failure("NoPackagesDefined", <<"packages">>) \in reported
        /\ checks = <<>>

\* C7 (amended): a manifest with an empty packages table fails, no module-path
\* check is performed in that run, and the failure is the "no packages
\* defined" error whenever the library header passes the validator's header
\* check (the schema validator reports it in every case).
C7_EmptyPackagesFails ==
    EmptyPackagesTable =>
        /\ checks = <<>>
        /\ validated = {}
        /\ pc = "exit" =>
              /\ exitStatus = 1
              /\ (script = "schema" \/ validate_library_header(manifest) = {})
                    => Failure("NoPackagesDefined", <<"packages">>) \in reported

\* C7 witness: the hand-written validator rejected an empty packages table
\* with the "no packages defined" error.
C7_Witness ==
    /\ script = "hand"
    /\ EmptyPackagesTable
    /\ pc = "exit"
    /\ reported = {Failure("NoPackagesDefined", <<"packages">>)}

\* C8: a module path that does not exist fails with the "does not exist"
\* error and only such a path does; a module path that exists without a
\* module.toml fails with the "not a valid module" error and only such a
\* path does.
C8_MissingPathVersusNotAModule ==
    /\ \A f \in reported :
          /\ f.kind = "ModulePathDoesNotExist" => ~PathExists(f.subject)
          /\ f.kind = "NotAValidModule" =>
                PathExists(f.subject) /\ ~PathExists(f.subject \o MODULE_TOML)
    /\ \A n \in 1..Len(checks) :
          /\ (checks[n].check = "exists" /\ ~PathExists(checks[n].path)) =>
                /\ exitStatus = 1
                /\ reported = {Failure("ModulePathDoesNotExist", checks[n].path)}
          /\ (checks[n].check = "module_toml" /\ ~PathExists(checks[n].path)) =>
                /\ exitStatus = 1
                /\ reported = {Failure("NotAValidModule",
                                       MODULES_DIR \o checks[n].module)}
          /\ checks[n].check = "module_toml" =>
                PathExists(MODULES_DIR \o checks[n].module)

\* C8 witness: after a module was validated, a later module directory that
\* exists without a module.toml was rejected as not a valid module.
C8_Witness ==
    /\ validated # {}
    /\ \E f \in reported :
          /\ f.kind = "NotAValidModule"
          /\ PathExists(f.subject)
          /\ ~PathExists(f.subject \o MODULE_TOML)

\* the locations a module's descriptor lists as extra resources
ExtraLocations(module_path) ==
    LET desc == tomlOf[MODULES_DIR \o module_path]
    IN  {desc.extra_resources[k] : k \in 1..Len(desc.extra_resources)}

\* C9: every extra-resource check looks at <base directory>/<location> for a
\* location of that module's descriptor; a missing one fails the run with the
\* error naming that file; a module is reported validated only after each of
\* its locations was checked and exists under the base directory.
C9_ExtraResourcesUnderBase ==
    /\ \A n \in 1..Len(checks) :
          checks[n].check = "extra" =>
              /\ \E loc \in ExtraLocations(checks[n].module) :
                    checks[n].path = MODULES_DIR \o loc
              /\ ~PathExists(checks[n].path) =>
                    /\ exitStatus = 1
                    /\ reported = {Failure("NonExistentFile", checks[n].path)}
    /\ \A f \in reported : f.kind = "NonExistentFile" => ~PathExists(f.subject)
    /\ \A m \in validated :
          \A loc \in ExtraLocations(m) :
              /\ PathExists(MODULES_DIR \o loc)
              /\ \E n \in 1..Len(checks) :
                    checks[n] = Check("extra", MODULES_DIR \o loc, m)

\* C9 witness: a module whose resource is missing under the base directory,
\* though a file of that location lies in the module's own directory, was
\* rejected after an earlier module with resources was validated.
C9_Witness ==
    /\ \E m \in validated : ExtraLocations(m) # {}
    /\ \E n \in 1..Len(checks) :
          /\ checks[n].check = "extra"
          /\ reported = {Failure("NonExistentFile", checks[n].path)}
          /\ \E loc \in ExtraLocations(checks[n].module) :
                /\ checks[n].path = MODULES_DIR \o loc
                /\ PathExists(MODULES_DIR \o checks[n].module \o loc)

\* the packages, in declaration order, and whether one is structurally
\* valid (required fields present and non-empty, modules list non-empty)
PackageCount == Len(manifest.packages.items)

StructurallyValid(i) == validate_package_structure(manifest.packages.items[i]) = {}

HasBadModulePath(i) ==
    \E k \in 1..Len(manifest.packages.items[i].modules.items) :
        ModuleOutcome(script, manifest.packages.items[i].modules.items[k]).failure # {}

StructuralKinds == {"MissingField", "EmptyField", "ModulesNotAList", "ModulesEmpty"}

\* C11 (as claimed): the structural check of every package is completed
\* before the first module-path check of any package, so a manifest whose
\* earlier package references a bad module path and whose later package is
\* structurally invalid is rejected with the structural error and without any
\* module-path check; a reported failure ends the run with no success.
C11_StructureOfAllBeforeModulePaths ==
    /\ checks # <<>> => \A i \in 1..PackageCount : StructurallyValid(i)
    /\ (/\ pc = "exit"
        /\ \E i, j \in 1..PackageCount :
              /\ i < j
              /\ StructurallyValid(i)
              /\ HasBadModulePath(i)
              /\ ~StructurallyValid(j))
          => /\ exitStatus = 1
             /\ checks = <<>>
             /\ \A f \in reported : f.kind \in StructuralKinds
    /\ reported # {} => (pc = "exit" /\ exitStatus = 1)

ValNext ==
    \/ HandLoad
    \/ HandLibraryHeader
    \/ HandPackages
    \/ HandPackageStructure
    \/ HandModulePath
    \/ HandFinish
    \/ SchemaLoad
    \/ SchemaPackage
    \/ SchemaModulePath
    \/ SchemaFinish

SpecValidate == ValInit /\ [][ValNext]_vars

\* =========================================================================
\*                    Archiver (scripts/build_packages.py)
\* =========================================================================
modules_dir == <<"modules">>

\* create_modules_zip, line 50: the directory names pruned from the walk
ExcludedDirs == {"__pycache__", ".pytest_cache", ".git"}

ArcFileNames == {"f", ".git"}

\* the file paths below modules/ of the trees whose directories are named
\* "pkg" or `excluded`
ArcRelFiles(excluded) ==
    UNION {{Append(d, f) : d \in SeqsOfLen({"pkg", excluded}, n), f \in ArcFileNames}
           : n \in 0..(MaxDepth - 1)}

\* a tree holds no path that is both a regular file and a directory
IsTree(files) ==
    \A p, q \in files : p # q => ~IsPrefix(p, q)

ArcTrees ==
    UNION {{t \in SubsetsUpTo({modules_dir \o r : r \in ArcRelFiles(x)}, MaxFiles) :
              IsTree(t)} : x \in ExcludedDirs}

\* os.walk, line 47: the sub-directories and the files of directory `root`
WalkDirs(root) ==
    {p[Len(root) + 1] : p \in {q \in arcFiles : IsPrefix(root, q) /\ Len(q) > Len(root) + 1}}

WalkFiles(root) ==
    {p[Len(root) + 1] : p \in {q \in arcFiles : IsPrefix(root, q) /\ Len(q) = Len(root) + 1}}

\* create_modules_zip, lines 49-51: dirs[:] = [d for d in dirs if d not in [...]]
KeptDirsRebound(dirs) == dirs

KeptDirs(dirs) == {d \in dirs : d \notin ExcludedDirs}

\* create_modules_zip, lines 55-57: the entry name of `file` found in `root`
arcname(root, file) == RelativeTo(root \o <<file>>, modules_dir)

ArcInit ==
    /\ pc = "arc_start"
    /\ exitStatus = "running"
    /\ reported = {}
    /\ SyncIdle
    /\ ValIdle
    /\ arcExists \in BOOLEAN
    /\ arcFiles \in (IF arcExists THEN ArcTrees ELSE {{}})
    /\ toWalk = {}
    /\ archive = EmptyBag

\* create_modules_zip, lines 24-29: no modules directory
ArcNoModulesDir ==
    /\ UNCHANGED <<syncVars, valVars>>
    /\ pc = "arc_start"
    /\ ~arcExists
    /\ Fail({Failure("DirectoryNotFound", modules_dir)})
    /\ UNCHANGED arcVars

\* create_modules_zip, lines 31-47: the zip file is opened (or cannot be) and
\* the walk starts at modules_dir
ArcOpen ==
    /\ UNCHANGED <<syncVars, valVars>>
    /\ pc = "arc_start"
    /\ arcExists
    /\ \/ /\ pc' = "arc_walk"
          /\ toWalk' = {modules_dir}
          /\ UNCHANGED <<exitStatus, reported>>
       \/ /\ Fail({Failure("FailedToCreateZip", modules_dir)})
          /\ UNCHANGED toWalk
    /\ UNCHANGED <<arcExists, arcFiles, archive>>

\* create_modules_zip, lines 47-60: one directory of the walk: its
\* sub-directories are pruned and its files written
ArcWalkDir ==
    /\ UNCHANGED <<syncVars, valVars>>
    /\ pc = "arc_walk"
    /\ \E root \in toWalk :
          LET written == SetToBag({arcname(root, file) : file \in WalkFiles(root)})
          IN  \/ /\ archive' = archive (+) written
                 /\ toWalk' = (toWalk \ {root})
                                \cup {root \o <<d>> : d \in KeptDirs(WalkDirs(root))}
                 /\ UNCHANGED <<pc, exitStatus, reported>>
              \/ /\ WalkFiles(root) # {}
                 /\ Fail({Failure("FailedToCreateZip", root)})
                 /\ UNCHANGED <<archive, toWalk>>
    /\ UNCHANGED <<arcExists, arcFiles>>

\* create_modules_zip, lines 62-79, and main, lines 92-97: size, digest, report
ArcFinish ==
    /\ UNCHANGED <<syncVars, valVars>>
    /\ pc = "arc_walk"
    /\ toWalk = {}
    /\ \/ /\ pc' = "exit"
          /\ exitStatus' = 0
          /\ UNCHANGED reported
       \/ Fail({Failure("FailedToCreateZip", modules_dir)})
    /\ UNCHANGED arcVars

\* ---------------------------------------------------------- archiver claim
InExcludedDir(p) ==
    \E n \in (Len(modules_dir) + 1)..(Len(p) - 1) : p[n] \in ExcludedDirs

\* C10: when the archiver succeeds, the archive holds exactly one entry for
\* each regular file under modules/ that is not inside a __pycache__,
\* .pytest_cache or .git directory at any depth, named by the file's path
\* relative to modules/, and no other entry; no entry of an excluded file is
\* ever written.
C10_ArchiveIsTheIncludedFiles ==
    LET included == {p \in arcFiles : ~InExcludedDir(p)}
        names == {RelativeTo(p, modules_dir) : p \in included}
    IN  /\ \A n \in BagToSet(archive) : n \in names /\ CopiesIn(n, archive) = 1
        /\ (pc = "exit" /\ exitStatus = 0 /\ arcExists) => BagToSet(archive) = names

\* C10 witness: the archiver succeeded on a tree with a file in a nested
\* excluded directory, a regular file named .git and a nested included file.
C10_Witness ==
    /\ pc = "exit"
    /\ exitStatus = 0
    /\ \E p \in arcFiles : InExcludedDir(p) /\ p[Len(modules_dir) + 1] = "pkg"
    /\ \E p \in arcFiles : ~InExcludedDir(p) /\ p[Len(p)] = ".git"
    /\ <<"pkg", ".git">> \in BagToSet(archive)

ArcNext ==
    \/ ArcNoModulesDir
    \/ ArcOpen
    \/ ArcWalkDir
    \/ ArcFinish

SpecArchive == ArcInit /\ [][ArcNext]_vars

=============================================================================
